---- MODULE Spec2Model ----
(***************************************************************************)
(* WsGateway (src/s3_extend/gateways/ws_gateway.py): the websocket to      *)
(* Banyan gateway.  One wsg handler and one receive_data relay per         *)
(* connection, plus incoming_message_processing, the router the bus calls  *)
(* for every message.  All of them run on one asyncio event loop, so an    *)
(* action below is the code between two awaits.  Strings that the code     *)
(* rewrites (ids, topics) are sequences of one-character strings.          *)
(***************************************************************************)
EXTENDS Integers, Sequences, FiniteSets, TLC

\* ---- bounds of the model
MaxMsgs == 1
MaxFrames == 1
MaxRelayFrames == 2
MaxIdLen == 4

\* the websockets the server accepts, in the order it accepts them
Conns == {1, 2}

\* ---- strings
TO == <<"t", "o">>
FROM == <<"f", "r", "o", "m">>
Alphabet == {"t", "o", "x"}
NoId == <<>>
\* the ids clients of the gateway model send: "toa", "tob"
Ids == {TO \o <<"a">>, TO \o <<"b">>}
\* every id of at most MaxIdLen characters, for the topic derivation alone
BoundedIds == UNION {[1..n -> Alphabet] : n \in 1..MaxIdLen}

\* str.replace(old, new, 1): only the leftmost occurrence
RECURSIVE StrReplaceOnce(_, _, _)
StrReplaceOnce(s, old, new) ==
    IF Len(s) < Len(old) THEN s
    ELSE IF SubSeq(s, 1, Len(old)) = old
         THEN new \o SubSeq(s, Len(old) + 1, Len(s))
         ELSE <<s[1]>> \o StrReplaceOnce(Tail(s), old, new)

\* str.replace(old, new): every non-overlapping occurrence, left to right
RECURSIVE StrReplace(_, _, _)
StrReplace(s, old, new) ==
    IF Len(s) < Len(old) THEN s
    ELSE IF SubSeq(s, 1, Len(old)) = old
         THEN new \o StrReplace(SubSeq(s, Len(old) + 1, Len(s)), old, new)
         ELSE <<s[1]>> \o StrReplace(Tail(s), old, new)

\* line 149: subscriber_string = id_string.replace('to', 'from')
SubscriberString(id) == StrReplace(id, TO, FROM)

\* the topics the bus delivers: those of the ids, and one nobody listens to
BusTopics == {SubscriberString(i) : i \in Ids} \cup {<<"z">>}

\* ---- frames a client sends
\* first frame: {"id": ...}, a JSON object without id, or text that is no JSON
HsFrames(ids) ==
    [kind : {"id"}, id : ids] \cup [kind : {"noid", "garbage"}, id : {NoId}]
\* later frames: a JSON object (its content is cmd) or text that is no JSON;
\* the k-th frame of a connection carries the number k, so that no two frames
\* of a connection are alike
Cmds == 1..MaxRelayFrames
NoData == 0
Frames == [kind : {"json"}, cmd : Cmds] \cup [kind : {"garbage"}, cmd : {NoData}]

\* ---- bus payloads: a JSON object with the members report, value, timestamp;
\* a member may be absent.  A timestamp is a number (seconds), a text that is
\* no number, or, once formatted, the six fields of the formatted string.
Absent == "<absent>"
NoStamp == [type |-> "absent", v |-> <<>>]
Number(n) == [type |-> "number", v |-> <<n>>]
Text == [type |-> "string", v |-> <<>>]
Stamps == {NoStamp, Number(1700000000), Text}
Reports == {Absent, "panic", "data"}
Values == {1}
Payloads == [report : Reports, value : Values, timestamp : Stamps]

\* datetime.fromtimestamp(n).strftime('%Y-%m-%d %H:%M:%S'), for a process
\* whose local time is UTC: <<year, month, day, hour, minute, second>>
CivilFromDays(days) ==
    LET z == days + 719468
        era == z \div 146097
        doe == z - era * 146097
        yoe == (doe - doe \div 1460 + doe \div 36524 - doe \div 146096) \div 365
        doy == doe - (365 * yoe + yoe \div 4 - yoe \div 100)
        mp == (5 * doy + 2) \div 153
        d == doy - (153 * mp + 2) \div 5 + 1
        m == IF mp < 10 THEN mp + 3 ELSE mp - 9
        y == yoe + era * 400 + (IF m <= 2 THEN 1 ELSE 0)
    IN <<y, m, d>>

Strftime(n) ==
    LET secs == n % 86400
    IN CivilFromDays(n \div 86400)
         \o <<secs \div 3600, (secs % 3600) \div 60, secs % 60>>

\* json.dumps(payload): the members that are present, in the dict's order
Member(key, type, text, v) == [key |-> key, type |-> type, text |-> text, v |-> v]

JsonDumps(p) ==
    (IF p.report = Absent THEN <<>>
     ELSE <<Member("report", "string", p.report, <<>>)>>)
      \o <<Member("value", "number", "", <<p.value>>)>>
      \o (IF p.timestamp.type = "absent" THEN <<>>
          ELSE <<Member("timestamp", p.timestamp.type, "", p.timestamp.v)>>)

VARIABLES
    conn,            \* the websocket of each connection: none, open, closed
    hpc,             \* where each wsg handler is
    id_string,       \* wsg's id_string, receive_data's publisher_topic
    relay,           \* where each receive_data task is
    data,            \* receive_data's parsed frame, while it is published
    active_sockets,  \* self.active_sockets
    subscriptions,   \* the topics set_subscriber_topic was called with
    published,       \* what publish_payload put on the bus, and for which websocket
    frames,          \* the frames each receive_data got from recv(), in order
    stalled,         \* the peers that neither send nor close nor read any more
    rt_pc,           \* where incoming_message_processing is
    rt_err,          \* the exception that ended it
    topic,           \* its topic
    payload,         \* its payload (rewritten in place)
    scan,            \* the list its for loop iterates, and the position
    closed,          \* the websockets it called close() on
    sends,           \* the websockets it sent to, with the text sent
    bound,           \* the connections registered under topic when it was called
    msgs             \* how many bus messages were delivered

vars == <<conn, hpc, id_string, relay, data, active_sockets, subscriptions,
          published, frames, stalled, rt_pc, rt_err, topic, payload, scan, closed, sends,
          bound, msgs>>

routerVars == <<rt_pc, rt_err, topic, payload, scan, closed, sends, bound, msgs>>

\* ---- the registry
\* an entry under the publish topic instead of the subscribe topic
EntryUnderId(websocket, subscriber_string) ==
    [ws |-> websocket, topic |-> StrReplace(subscriber_string, FROM, TO)]

\* line 155: entry = {websocket: 'to_banyan_topic', subscriber_string: websocket}
Entry(websocket, subscriber_string) ==
    [ws |-> websocket, topic |-> subscriber_string]

AppendTwice(list, entry) == Append(Append(list, entry), entry)

\* line 156: self.active_sockets.append(entry)
AppendEntry(list, entry) == Append(list, entry)

\* a removal by the topic of the websocket's entry instead of the websocket
RemoveByTopic(list, websocket) ==
    SelectSeq(list, LAMBDA entry :
        \A i \in 1..Len(list) : list[i].ws = websocket => list[i].topic # entry.topic)

\* lines 175-176: [entry for entry in self.active_sockets if websocket not in entry]
RemoveEntry(list, websocket) ==
    SelectSeq(list, LAMBDA entry : entry.ws # websocket)

\* line 193 / 207: topic in socket.keys()
Matches(socket, t) == socket.topic = t

EntriesOf(list, c) == {i \in 1..Len(list) : list[i].ws = c}
BoundTo(list, t) == {list[i].ws : i \in {k \in 1..Len(list) : Matches(list[k], t)}}

\* ---- the for loops of the router.  A for loop iterates the list object that
\* self.active_sockets named when the loop began: append (line 156) changes
\* that object, the assignment of line 175 makes self.active_sockets name a
\* new one.  shared says whether the loop's list is still self.active_sockets.
NoScan == [list |-> <<>>, shared |-> TRUE, idx |-> 0]

ScanList == IF scan.shared THEN active_sockets ELSE scan.list

\* a removal that changed the list object in place (del, list.remove)
SameList(sc) == sc

\* line 175: self.active_sockets is assigned a new list; a loop in progress
\* keeps the old one
Rebind(sc) ==
    IF sc.idx # 0 /\ sc.shared
    THEN [list |-> active_sockets, shared |-> FALSE, idx |-> sc.idx]
    ELSE sc

\* the first entry at or after position i that matches t, 0 if there is none
NextMatch(list, i, t) ==
    IF \E j \in i..Len(list) : Matches(list[j], t)
    THEN CHOOSE j \in i..Len(list) :
             /\ Matches(list[j], t)
             /\ \A k \in i..(j - 1) : ~Matches(list[k], t)
    ELSE 0

Position(list, shared, j) ==
    [list |-> IF shared THEN <<>> ELSE list, shared |-> shared, idx |-> j]

\* lines 206-209, from position i to the next await or to the end
Fanout(list, shared, i, t, st) ==
    LET j == NextMatch(list, i, t)
    IN IF j = 0 THEN [st EXCEPT !.pc = "done", !.scan = NoScan]
       ELSE IF st.conn[list[j].ws] = "closed"
       THEN [st EXCEPT !.pc = "failed", !.err = "ConnectionClosed", !.scan = NoScan]
       ELSE [st EXCEPT !.pc = "send", !.scan = Position(list, shared, j),
                       !.sends = Append(@, [ws |-> list[j].ws,
                                            ws_data |-> JsonDumps(st.payload)])]

\* lines 197-209: the timestamp is rewritten, then the fan-out loop begins
\* on the list self.active_sockets names now
AfterPanic(t, st) ==
    IF st.payload.timestamp.type = "absent"
    THEN Fanout(active_sockets, TRUE, 1, t, st)
    ELSE IF st.payload.timestamp.type # "number"
    THEN [st EXCEPT !.pc = "failed", !.err = "TypeError", !.scan = NoScan]
    ELSE Fanout(active_sockets, TRUE, 1, t,
                [st EXCEPT !.payload.timestamp =
                    [type |-> "string", v |-> Strftime(@.v[1])]])

\* lines 192-195, from position i to the next await or to the end of the loop
Panic(list, shared, i, t, st) ==
    LET j == NextMatch(list, i, t)
    IN IF j = 0 THEN AfterPanic(t, st)
       ELSE [st EXCEPT !.pc = "close", !.scan = Position(list, shared, j),
                       !.closed = @ \cup {list[j].ws},
                       !.conn[list[j].ws] = "closed"]

\* lines 190-209 from the call to the first await
Invoke(t, p, st) ==
    IF p.report = Absent
    THEN [st EXCEPT !.pc = "failed", !.err = "KeyError"]
    ELSE IF p.report = "panic"
    THEN Panic(active_sockets, TRUE, 1, t, st)
    ELSE AfterPanic(t, st)

\* ---- the state after __init__ (line 89: self.active_sockets = [])
Init ==
    /\ conn = [c \in Conns |-> "none"]
    /\ hpc = [c \in Conns |-> "idle"]
    /\ id_string = [c \in Conns |-> NoId]
    /\ relay = [c \in Conns |-> "none"]
    /\ data = [c \in Conns |-> NoData]
    /\ active_sockets = <<>>
    /\ subscriptions = {}
    /\ published = <<>>
    /\ frames = [c \in Conns |-> <<>>]
    /\ stalled = {}
    /\ rt_pc = "idle"
    /\ rt_err = ""
    /\ topic = <<>>
    /\ payload = [report |-> Absent, value |-> 1, timestamp |-> NoStamp]
    /\ scan = NoScan
    /\ closed = {}
    /\ sends = <<>>
    /\ bound = {}
    /\ msgs = 0

\* ---- wsg, lines 120-159
\* a client connects: websockets.serve calls wsg with a new websocket, and wsg
\* runs to line 134.  Connection c is the c-th one the server accepted.
Connect(c) ==
    /\ hpc[c] = "idle"
    /\ \A b \in Conns : b < c => hpc[b] # "idle"
    /\ conn' = [conn EXCEPT ![c] = "open"]
    /\ hpc' = [hpc EXCEPT ![c] = "recv"]
    /\ UNCHANGED <<id_string, relay, data, active_sockets, subscriptions,
                   published, frames, stalled>>
    /\ UNCHANGED routerVars

\* the peer closes the connection
ClientClose(c) ==
    /\ conn[c] = "open"
    /\ c \notin stalled
    /\ conn' = [conn EXCEPT ![c] = "closed"]
    /\ UNCHANGED <<hpc, id_string, relay, data, active_sockets, subscriptions,
                   published, frames, stalled>>
    /\ UNCHANGED routerVars

\* the peer stalls: from now on it sends nothing, does not close and does not
\* read what is sent to it (no timeout is set on recv or send)
Stall(c) ==
    /\ conn[c] = "open"
    /\ c \notin stalled
    /\ stalled' = stalled \cup {c}
    /\ UNCHANGED <<conn, hpc, id_string, relay, data, active_sockets,
                   subscriptions, published, frames>>
    /\ UNCHANGED routerVars

\* a frame that data = json.loads(data) parses and data['id'] finds
HasIdOrDefault(frame) == frame.kind \in {"id", "noid"}

\* lines 139-146: json.loads raises on text that is no JSON, data['id']
\* raises KeyError when there is no id
HasId(frame) == frame.kind = "id"

\* lines 134-152: the first frame arrives, or the connection closed before it
\* (ConnectionClosedOK is passed over and json.loads(data) then raises on the
\* unbound data; any other ConnectionClosed propagates).  An exception ends
\* the handler, and websockets closes the connection of a handler that ended.
HandshakeRecv(c, frame) ==
    /\ hpc[c] = "recv"
    /\ IF conn[c] = "open" /\ HasId(frame)
       THEN /\ id_string' = [id_string EXCEPT ![c] = frame.id]
            /\ hpc' = [hpc EXCEPT ![c] = "subscribe"]
            /\ conn' = conn
       ELSE /\ hpc' = [hpc EXCEPT ![c] = "failed"]
            /\ conn' = [conn EXCEPT ![c] = "closed"]
            /\ id_string' = id_string
    /\ UNCHANGED <<relay, data, active_sockets, subscriptions, published,
                   frames, stalled>>
    /\ UNCHANGED routerVars

\* a handshake whose subscription replaces the earlier ones
SubscribeReplacing(c) ==
    /\ hpc[c] = "subscribe"
    /\ LET subscriber_string == SubscriberString(id_string[c])
       IN /\ subscriptions' = {subscriber_string}
          /\ active_sockets' =
                 AppendEntry(active_sockets, Entry(c, subscriber_string))
    /\ relay' = [relay EXCEPT ![c] = "recv"]
    /\ hpc' = [hpc EXCEPT ![c] = "relay"]
    /\ UNCHANGED <<conn, id_string, data, published, frames, stalled>>
    /\ UNCHANGED routerVars

\* lines 149-159: set_subscriber_topic returns, the entry is appended and the
\* relay task is created; wsg awaits it
Subscribe(c) ==
    /\ hpc[c] = "subscribe"
    /\ LET subscriber_string == SubscriberString(id_string[c])
       IN /\ subscriptions' = subscriptions \cup {subscriber_string}
          /\ active_sockets' =
                 AppendEntry(active_sockets, Entry(c, subscriber_string))
    /\ relay' = [relay EXCEPT ![c] = "recv"]
    /\ hpc' = [hpc EXCEPT ![c] = "relay"]
    /\ UNCHANGED <<conn, id_string, data, published, frames, stalled>>
    /\ UNCHANGED routerVars

\* line 159: the relay task ended, wsg returns (or raises what the task
\* raised) and websockets closes the connection
HandlerExit(c) ==
    /\ hpc[c] = "relay"
    /\ relay[c] \in {"done", "failed"}
    /\ hpc' = [hpc EXCEPT ![c] = relay[c]]
    /\ conn' = [conn EXCEPT ![c] = "closed"]
    /\ UNCHANGED <<id_string, relay, data, active_sockets, subscriptions,
                   published, frames, stalled>>
    /\ UNCHANGED routerVars

\* ---- receive_data, lines 161-179
InFlight == Len(published) + Cardinality({c \in Conns : relay[c] = "publish"})

\* lines 170-177: recv returns a frame or raises ConnectionClosed (a peer
\* that stalled sends nothing); at most max frames are followed.  Only
\* ConnectionClosed and TypeError are caught, and json.loads raises
\* JSONDecodeError (a ValueError) on text that is no JSON
ReceiveData(c, frame, max) ==
    /\ relay[c] = "recv"
    /\ IF conn[c] = "closed"
       THEN /\ active_sockets' = RemoveEntry(active_sockets, c)
            /\ scan' = Rebind(scan)
            /\ relay' = [relay EXCEPT ![c] = "done"]
            /\ UNCHANGED <<data, frames>>
       ELSE /\ c \notin stalled
            /\ frames' = [frames EXCEPT ![c] = Append(@, frame)]
            /\ IF frame.kind = "json"
               THEN /\ InFlight < max
                    /\ frame.cmd = Len(frames[c]) + 1
                    /\ relay' = [relay EXCEPT ![c] = "publish"]
                    /\ data' = [data EXCEPT ![c] = frame.cmd]
               ELSE /\ relay' = [relay EXCEPT ![c] = "failed"]
                    /\ data' = data
            /\ UNCHANGED <<active_sockets, scan>>
    /\ UNCHANGED <<conn, hpc, id_string, subscriptions, published, stalled>>
    /\ UNCHANGED <<rt_pc, rt_err, topic, payload, closed, sends, bound, msgs>>

\* receive_data's publisher_topic under the subscribe topic
PublisherTopicDerived(c) == SubscriberString(id_string[c])

\* line 159: receive_data(websocket, data['id']): publisher_topic is the id
PublisherTopic(c) == id_string[c]

\* the relay as the gateway model runs it: at most MaxFrames frames
RelayRecv(c, frame) == ReceiveData(c, frame, MaxFrames)

\* the relay alone: at most MaxRelayFrames frames
RelayRecvMore(c, frame) == ReceiveData(c, frame, MaxRelayFrames)

\* line 179: publish_payload returns, or raises (nothing catches it)
RelayPublish(c, ok) ==
    /\ relay[c] = "publish"
    /\ IF ok
       THEN /\ published' = Append(published,
                                   [topic |-> PublisherTopic(c),
                                    payload |-> data[c], ws |-> c])
            /\ relay' = [relay EXCEPT ![c] = "recv"]
       ELSE /\ published' = published
            /\ relay' = [relay EXCEPT ![c] = "failed"]
    /\ data' = [data EXCEPT ![c] = NoData]
    /\ UNCHANGED <<conn, hpc, id_string, active_sockets, subscriptions, frames,
                   stalled>>
    /\ UNCHANGED routerVars

\* ---- incoming_message_processing, lines 181-209
RouterState ==
    [pc |-> rt_pc, err |-> rt_err, scan |-> scan, closed |-> closed,
     sends |-> sends, payload |-> payload, conn |-> conn]

Becomes(st) ==
    /\ rt_pc' = st.pc
    /\ rt_err' = st.err
    /\ scan' = st.scan
    /\ closed' = st.closed
    /\ sends' = st.sends
    /\ payload' = st.payload
    /\ conn' = st.conn

\* the bus delivers (t, p): the router runs to its first await or to its end
RouterInvoke(t, p) ==
    /\ rt_pc \in {"idle", "done", "failed"}
    /\ msgs < MaxMsgs
    /\ msgs' = msgs + 1
    /\ topic' = t
    /\ bound' = BoundTo(active_sockets, t)
    /\ Becomes(Invoke(t, p, [pc |-> "idle", err |-> "", scan |-> NoScan,
                              closed |-> {}, sends |-> <<>>, payload |-> p,
                              conn |-> conn]))
    /\ UNCHANGED <<hpc, id_string, relay, data, active_sockets, subscriptions,
                   published, frames, stalled>>

\* a panic loop that also drops the entry of the connection it closed
RouterClosedRemoving ==
    /\ rt_pc = "close"
    /\ Becomes(Panic(ScanList, scan.shared, scan.idx + 1, topic, RouterState))
    /\ active_sockets' = RemoveEntry(active_sockets, ScanList[scan.idx].ws)
    /\ UNCHANGED <<hpc, id_string, relay, data, subscriptions,
                   published, frames, stalled, topic, bound, msgs>>

\* line 195: close() returns and the panic loop goes on
RouterClosed ==
    /\ rt_pc = "close"
    /\ Becomes(Panic(ScanList, scan.shared, scan.idx + 1, topic, RouterState))
    /\ UNCHANGED <<hpc, id_string, relay, data, active_sockets, subscriptions,
                   published, frames, stalled, topic, bound, msgs>>

\* line 209: send() returns and the fan-out loop goes on; the send to a peer
\* that does not read does not return while the connection is open
RouterSent ==
    /\ rt_pc = "send"
    /\ LET websocket == sends[Len(sends)].ws
       IN ~(websocket \in stalled /\ conn[websocket] = "open")
    /\ Becomes(Fanout(ScanList, scan.shared, scan.idx + 1, topic, RouterState))
    /\ UNCHANGED <<hpc, id_string, relay, data, active_sockets, subscriptions,
                   published, frames, stalled, topic, bound, msgs>>

Next ==
    \/ \E c \in Conns : Connect(c)
    \/ \E c \in Conns : ClientClose(c)
    \/ \E c \in Conns : \E frame \in HsFrames(Ids) : HandshakeRecv(c, frame)
    \/ \E c \in Conns : Subscribe(c)
    \/ \E c \in Conns : HandlerExit(c)
    \/ \E c \in Conns : \E frame \in Frames : RelayRecv(c, frame)
    \/ \E c \in Conns : \E ok \in BOOLEAN : RelayPublish(c, ok)
    \/ \E t \in BusTopics : \E p \in Payloads : RouterInvoke(t, p)
    \/ RouterClosed
    \/ RouterSent

Spec == Init /\ [][Next]_vars

\* ---- the gateway with stalled peers and longer relays, under the scheduling
\* of the event loop: a task that can run does run.  What clients and the bus
\* do (connect, send, close, stall, deliver) is under no obligation.
LivePayloads == {p \in Payloads : p.report # Absent /\ p.timestamp = NoStamp}

\* the task that awaits recv() is woken when the connection closed
HandshakeWoken(c) ==
    conn[c] = "closed" /\ \E frame \in HsFrames(Ids) : HandshakeRecv(c, frame)

RelayWoken(c) ==
    conn[c] = "closed" /\ \E frame \in Frames : RelayRecvMore(c, frame)

NextLive ==
    \/ \E c \in Conns : Connect(c)
    \/ \E c \in Conns : ClientClose(c)
    \/ \E c \in Conns : Stall(c)
    \/ \E c \in Conns : \E frame \in HsFrames(Ids) : HandshakeRecv(c, frame)
    \/ \E c \in Conns : Subscribe(c)
    \/ \E c \in Conns : HandlerExit(c)
    \/ \E c \in Conns : \E frame \in Frames : RelayRecvMore(c, frame)
    \/ \E c \in Conns : \E ok \in BOOLEAN : RelayPublish(c, ok)
    \/ \E t \in BusTopics : \E p \in LivePayloads : RouterInvoke(t, p)
    \/ RouterClosed
    \/ RouterSent

Fairness ==
    /\ \A c \in Conns : WF_vars(HandshakeWoken(c))
    /\ \A c \in Conns : WF_vars(Subscribe(c))
    /\ \A c \in Conns : WF_vars(HandlerExit(c))
    /\ \A c \in Conns : WF_vars(RelayWoken(c))
    /\ \A c \in Conns : WF_vars(\E ok \in BOOLEAN : RelayPublish(c, ok))
    /\ WF_vars(RouterClosed)
    /\ WF_vars(RouterSent)

SpecLive == Init /\ [][NextLive]_vars /\ Fairness

\* the topic derivation alone: one connection, every id of BoundedIds
NextTopic ==
    \/ Connect(1)
    \/ ClientClose(1)
    \/ \E frame \in HsFrames(BoundedIds) : HandshakeRecv(1, frame)
    \/ Subscribe(1)

SpecTopic == Init /\ [][NextTopic]_vars

\* ---------------------------------------------------------------------------
\* Properties

Ended == msgs > 0 /\ rt_pc \in {"done", "failed"}
SentTo == {sends[i].ws : i \in 1..Len(sends)}
Registered == {active_sockets[i].ws : i \in 1..Len(active_sockets)}

\* C1: once the relay of a connection has ended, for whatever reason, the
\* registry holds no entry of that connection.
C1_EndedRelayHasNoEntry ==
    \A c \in Conns :
        relay[c] \in {"done", "failed"} => EntriesOf(active_sockets, c) = {}

\* C2: a message without a report member, on the topic of a registered
\* session, is forwarded: the router ends without error and every session
\* bound to the topic was sent the payload, its value member as it came.
C2_NoReportIsForwarded ==
    (Ended /\ payload.report = Absent /\ payload.timestamp # Text /\ bound # {})
        => /\ rt_pc = "done"
           /\ \A c \in bound : \E i \in 1..Len(sends) :
                 /\ sends[i].ws = c
                 /\ \E k \in 1..Len(sends[i].ws_data) :
                       sends[i].ws_data[k] =
                           Member("value", "number", "", <<payload.value>>)

\* C3: an invocation sends the payload to exactly the connections registered
\* under its topic, once each, and to no other.
C3_FanoutToExactlyTheBound ==
    Ended => /\ SentTo = bound
             /\ Len(sends) = Cardinality(bound)

\* C4: once the panic step of a panic message is over, close() was called on
\* every connection that was registered under the topic when the router was
\* called, whatever the relays and handshakes did meanwhile; and close() is
\* only ever called on connections of that topic.
C4_PanicClosesEveryBound ==
    /\ (msgs > 0 /\ payload.report = "panic" /\ rt_pc \in {"send", "done", "failed"})
          => bound \subseteq closed
    /\ \A c \in closed :
          /\ conn[c] = "closed"
          /\ SubscriberString(id_string[c]) = topic
          /\ payload.report = "panic"

C4_Witness ==
    /\ payload.report = "panic"
    /\ rt_pc = "done"
    /\ bound = Conns
    /\ closed = Conns
    /\ active_sockets = <<>>

\* C5: the fan-out of a panic message never ends the router with the
\* exception of a send to a connection that is already closed.
C5_PanicFanoutNeverRaises ==
    (payload.report = "panic" /\ rt_pc = "failed") => rt_err # "ConnectionClosed"

\* C6: a closed connection whose entry is still scanned never ends a router
\* invocation in an error, and so never keeps the message from the sessions
\* after it.
C6_ClosedConnectionIsContained ==
    rt_err # "ConnectionClosed"

\* C7: a handshake that fails (closed before the first frame, no JSON, no id)
\* leaves the registry and the subscriptions as they were and starts no relay;
\* a connection without an id never has an entry or a relay.
C7_FailedStep ==
    \A c \in Conns :
        (hpc[c] = "recv" /\ hpc'[c] = "failed")
            => /\ active_sockets' = active_sockets
               /\ subscriptions' = subscriptions
               /\ relay'[c] = "none"

C7_NoIdNoSession ==
    \A c \in Conns :
        id_string[c] = NoId
            => /\ EntriesOf(active_sockets, c) = {}
               /\ relay[c] = "none"
               /\ hpc[c] \in {"idle", "recv", "failed"}

C7_FailedHandshakeCreatesNoSession ==
    []C7_NoIdNoSession /\ [][C7_FailedStep]_vars

C7_Witness ==
    /\ hpc[2] = "failed"
    /\ id_string[2] = NoId
    /\ Registered = {1}
    /\ relay[1] = "recv"

\* C8 as the specification states it: the subscribe topic is the id with the
\* first "to" replaced by "from" and every later one left as it is.
Occurrences(s) == {i \in 1..(Len(s) - 1) : s[i] = "t" /\ s[i + 1] = "o"}

FirstReplaced(s) ==
    IF Occurrences(s) = {} THEN s
    ELSE LET i == CHOOSE k \in Occurrences(s) : \A m \in Occurrences(s) : k <= m
         IN SubSeq(s, 1, i - 1) \o FROM \o SubSeq(s, i + 2, Len(s))

C8_OnlyFirstOccurrence ==
    \A i \in 1..Len(active_sockets) :
        active_sockets[i].topic = FirstReplaced(id_string[active_sockets[i].ws])

\* C8, amended: every occurrence of "to" in the id is replaced by "from" and
\* every other character is kept, in order; so an id with one occurrence has
\* that one replaced and an id without "to" is its own subscribe topic.
Shift(s, i) == 2 * Cardinality({k \in Occurrences(s) : k < i})

EveryReplaced(s, r) ==
    /\ Len(r) = Len(s) + 2 * Cardinality(Occurrences(s))
    /\ \A i \in 1..Len(s) :
          IF i \in Occurrences(s)
          THEN SubSeq(r, i + Shift(s, i), i + Shift(s, i) + 3) = FROM
          ELSE (i - 1) \notin Occurrences(s) => r[i + Shift(s, i)] = s[i]

C8_EveryOccurrence ==
    \A i \in 1..Len(active_sockets) :
        LET id == id_string[active_sockets[i].ws]
            subscriber_string == active_sockets[i].topic
        IN /\ EveryReplaced(id, subscriber_string)
           /\ Cardinality(Occurrences(id)) <= 1
                 => subscriber_string = FirstReplaced(id)
           /\ Occurrences(id) = {} => subscriber_string = id

C8_Witness ==
    /\ Len(active_sockets) = 1
    /\ id_string[1] = TO \o TO
    /\ active_sockets[1].topic = FROM \o FROM

\* C9: a message whose topic matches no registered session is dropped: nothing
\* is sent, nothing is closed, and the router ends without an error.
C9_UnmatchedIsDropped ==
    (Ended /\ bound = {})
        => /\ rt_pc = "done"
           /\ sends = <<>>
           /\ closed = {}

\* C10: the registry never holds two entries of the same connection.
C10_OneEntryPerConnection ==
    \A c \in Conns : Cardinality(EntriesOf(active_sockets, c)) <= 1

C10_Witness ==
    /\ relay[1] = "done"
    /\ Registered = {2}
    /\ Len(active_sockets) = 1
    /\ msgs > 0

\* C11: what a connection's relay published is, at every moment, a prefix of
\* the frames it received: the i-th publication carries the i-th frame, under
\* the id of the handshake, whatever the other relays and the router did.
PubsOf(c) == SelectSeq(published, LAMBDA m : m.ws = c)

C11_PublishedInReceiptOrder ==
    \A c \in Conns :
        /\ Len(PubsOf(c)) <= Len(frames[c])
        /\ \A i \in 1..Len(PubsOf(c)) :
              /\ frames[c][i].kind = "json"
              /\ PubsOf(c)[i].payload = frames[c][i].cmd
              /\ PubsOf(c)[i].topic = id_string[c]

C11_Witness ==
    /\ Len(PubsOf(1)) = 2
    /\ relay[2] # "none"
    /\ msgs > 0

\* C12: A and B are registered under one topic and a panic message for it is
\* routed: both get closed, and once the router and both handlers have run to
\* their end the registry holds no entry of that topic.
C12_PanicEmptiesTheTopic ==
    (Ended /\ payload.report = "panic" /\ bound = Conns
           /\ \A c \in Conns : hpc[c] \in {"done", "failed"})
        => /\ closed = Conns
           /\ BoundTo(active_sockets, topic) = {}

\* C13: a timestamp that is absent or no number is left as it is and the
\* payload is forwarded without an error; the other members are forwarded as
\* they came.
C13_OnlyNumericTimestampRewritten ==
    (Ended /\ payload.report # Absent)
        => /\ rt_err # "TypeError"
           /\ \A i \in 1..Len(sends) :
                 \E k \in 1..Len(sends[i].ws_data) :
                     sends[i].ws_data[k] =
                         Member("value", "number", "", <<payload.value>>)

\* C14: no insert and no removal is lost: the registry holds exactly the
\* connections whose handshake appended an entry and whose relay has not
\* executed its removal.
C14_NoLostUpdate ==
    Registered = {c \in Conns : relay[c] \in {"recv", "publish", "failed"}}

C14_Witness ==
    /\ relay[2] = "done"
    /\ Registered = {1}
    /\ id_string[1] = id_string[2]
    /\ rt_pc = "send"

\* C15: a scan that was suspended in close() or send() while a relay removed
\* its entry does not fail when it goes on, and when it ends it has visited
\* every matching entry of the list it began with.
C15_Step ==
    /\ (rt_pc = "send" /\ ~scan.shared)
          => /\ rt_err' # "ConnectionClosed"
             /\ rt_pc' = "done" =>
                   BoundTo(scan.list, topic) \subseteq
                       {sends'[i].ws : i \in 1..Len(sends')}
    /\ (rt_pc = "close" /\ ~scan.shared /\ rt_pc' # "close")
          => BoundTo(scan.list, topic) \subseteq closed'

C15_ScanSurvivesRemoval == [][C15_Step]_vars

\* C16: the step that completes a handshake with id X leaves the process
\* subscribed to the subscribe topic of X, appends exactly one entry binding
\* the connection to that topic, and starts the relay, which had published
\* nothing yet; a relay that is running has its entry; and a frame is only
\* ever published, under X, by a connection whose entry exists.
C16_Step ==
    \A c \in Conns :
        /\ (hpc[c] = "subscribe" /\ hpc'[c] = "relay")
              => /\ SubscriberString(id_string[c]) \in subscriptions'
                 /\ active_sockets' =
                        Append(active_sockets,
                               [ws |-> c, topic |-> SubscriberString(id_string[c])])
                 /\ relay[c] = "none" /\ relay'[c] = "recv"
                 /\ PubsOf(c) = <<>> /\ (PubsOf(c))' = <<>>
        /\ Len((PubsOf(c))') > Len(PubsOf(c))
              => /\ c \in Registered
                 /\ (published')[Len(published')].topic = id_string[c]
        /\ relay'[c] \in {"recv", "publish"}
              => \E i \in 1..Len(active_sockets') :
                    active_sockets'[i] =
                        [ws |-> c, topic |-> SubscriberString(id_string'[c])]

C16_HandshakeOrder == [][C16_Step]_vars

C16_Witness ==
    /\ Len(PubsOf(1)) = 1
    /\ Registered = Conns
    /\ id_string[1] # id_string[2]
    /\ Cardinality(subscriptions) = 2

\* C17: while the peer of connection a is stalled, a frame that another
\* connection b sent is eventually published (or its publication raised), and
\* a bus message that matches both is eventually sent to b, unless b's
\* connection closed or b's peer stalled too.
C17_StalledPeerBlocksNoOne ==
    \A a, b \in Conns :
        a # b =>
            /\ (a \in stalled /\ relay[b] = "publish")
                   ~> (relay[b] # "publish")
            /\ (/\ a \in stalled /\ conn[a] = "open"
                /\ rt_pc = "send" /\ {a, b} \subseteq bound
                /\ conn[b] = "open" /\ b \notin stalled)
                   ~> (b \in SentTo \/ conn[b] = "closed" \/ b \in stalled)

\* C18: no step of the router changes the registry, whether it handles a
\* panic or an ordinary message and whether it ends in an error or not; an
\* entry only ever leaves the registry in the step in which the relay of its
\* own connection ends after ConnectionClosed or TypeError.
C18_Step ==
    /\ <<rt_pc, rt_err, topic, payload, closed, sends, bound, msgs>>'
            # <<rt_pc, rt_err, topic, payload, closed, sends, bound, msgs>>
          => active_sockets' = active_sockets
    /\ \A c \in Registered :
          c \notin Registered' => (relay[c] = "recv" /\ relay'[c] = "done")

C18_RouterLeavesRegistry == [][C18_Step]_vars

C18_Witness ==
    /\ payload.report = "panic"
    /\ rt_pc = "failed"
    /\ closed = Conns
    /\ Registered = Conns

\* C19: the set of subscriptions only ever grows, and the topic of every
\* entry of the registry is subscribed.
C19_Subscribed ==
    \A i \in 1..Len(active_sockets) : active_sockets[i].topic \in subscriptions

C19_SubscriptionsOnlyGrow ==
    []C19_Subscribed /\ [][subscriptions \subseteq subscriptions']_vars

C19_Witness ==
    /\ Cardinality(subscriptions) = 2
    /\ closed # {}
    /\ \A c \in Conns : relay[c] = "done"
    /\ active_sockets = <<>>

====
